---- MODULE Spec2Model ----
(***************************************************************************)
(* A model of the Itch web scraper: the LOCATE builder and the Locator     *)
(* dataclass (src/Itch/locator.py), Scraper.create_scraping_method and     *)
(* ScrapingMethod (src/Itch/scraper.py) and ScrapeData                     *)
(* (src/Itch/scrape_data.py).                                              *)
(*                                                                         *)
(* Python values are records [ty, s, n]: the type name, the characters of  *)
(* a str (one per element, so that str.lower and str.replace are computed) *)
(* and the number of an int.  Objects are records of attributes; an        *)
(* attribute an object does not have is ABSENT, and reading it raises      *)
(* AttributeError.                                                         *)
(***************************************************************************)
EXTENDS Integers, Sequences, FiniteSets, TLC

\* ------------------------------------------------------------------ bounds
\* the fields of a FieldSet
MaxFields == 2
\* the addresses a caller passes to from_pages, over all its calls
MaxPages == 2
\* the pages of a listing, the links of one page, the limit of retrieve_urls
MaxListing == 2
MaxLinks == 2
MaxLimit == 3
\* the objects the builder makes, and the builders a caller obtains
MaxObjects == 3
MaxBuilders == 3

\* ----------------------------------------------------------- Python values
None == [ty |-> "NoneType", s |-> <<>>, n |-> 0]
ABSENT == [ty |-> "absent", s |-> <<>>, n |-> 0]
METHOD == [ty |-> "method", s |-> <<>>, n |-> 0]
Str(cs) == [ty |-> "str", s |-> cs, n |-> 0]
IntVal(k) == [ty |-> "int", s |-> <<>>, n |-> k]
Callable(cs) == [ty |-> "function", s |-> cs, n |-> 0]

Range(f) == {f[i] : i \in DOMAIN f}

UpperCase == <<"A","B","C","D","E","F","G","H","I","J","K","L","M",
               "N","O","P","Q","R","S","T","U","V","W","X","Y","Z">>
LowerCase == <<"a","b","c","d","e","f","g","h","i","j","k","l","m",
               "n","o","p","q","r","s","t","u","v","w","x","y","z">>

\* str.lower(), one character
LowerChar(c) ==
    IF \E i \in DOMAIN UpperCase : UpperCase[i] = c
    THEN LowerCase[CHOOSE i \in DOMAIN UpperCase : UpperCase[i] = c]
    ELSE c

\* str.lower()
lower(cs) == [i \in DOMAIN cs |-> LowerChar(cs[i])]

\* str.replace(old, new) for one-character old and new
replace(cs, old, new) == [i \in DOMAIN cs |-> IF cs[i] = old THEN new ELSE cs[i]]

\* ---------------------------------------------------------------- strings
textContent == <<"t","e","x","t","C","o","n","t","e","n","t">>
TEXT == <<"T","E","X","T">>
HREF == <<"H","R","E","F">>
href == <<"h","r","e","f">>
CSS_SELECTOR == <<"C","S","S","_","S","E","L","E","C","T","O","R">>
css_selector == <<"c","s","s"," ","s","e","l","e","c","t","o","r">>
ID == <<"I","D">>
XPATH == <<"X","P","A","T","H">>
h2 == <<"h","2">>
span == <<"s","p","a","n">>
Alpha == <<"A","l","p","h","a">>
Twelve == <<"1","2">>
Seven == <<"7">>
NA == <<"N","/","A">>
int == <<"i","n","t">>

\* ------------------------------------------------------------- locator.py
\* An object: its class and its attributes (ABSENT when it has none such);
\* items are the elements of a tuple.
Object(cls) ==
    [cls |-> cls, html_attribute |-> ABSENT, by |-> ABSENT, value |-> ABSENT,
     default_if_not_found |-> ABSENT, convert_to_type |-> ABSENT,
     name |-> ABSENT, BY__html_attribute |-> ABSENT, BY__by |-> ABSENT,
     items |-> <<>>]

\* Locator(html_attribute, by, value, default_if_not_found): the frozen
\* dataclass declares these four fields and no other.
Locator(html_attribute, by, value, default_if_not_found) ==
    [Object("Locator") EXCEPT
        !.html_attribute = html_attribute, !.by = by, !.value = value,
        !.default_if_not_found = default_if_not_found]

\* _HTML_ATTRIBUTE(name); by is its method
HTML_ATTRIBUTE(name) ==
    [Object("_HTML_ATTRIBUTE") EXCEPT !.name = name, !.by = METHOD]

\* _BY(__html_attribute, __by=None); by is its method
BY_init(html_attribute, by) ==
    [Object("_BY") EXCEPT
        !.BY__html_attribute = html_attribute, !.BY__by = by, !.by = METHOD]

\* a tuple
Tuple(items) == [Object("tuple") EXCEPT !.items = items]

\* _LOCATE.__sets_html_attribute(html_attribute_name)(func): the property
\* LOCATE.<func.__name__>
LOCATE_sets_html_attribute(html_attribute_name, func_name) ==
    HTML_ATTRIBUTE(IF html_attribute_name = None
                   THEN Str(lower(func_name))
                   ELSE html_attribute_name)

\* LOCATE.TEXT and LOCATE.HREF
LOCATE_TEXT == LOCATE_sets_html_attribute(Str(textContent), TEXT)
LOCATE_HREF == LOCATE_sets_html_attribute(None, HREF)

\* LOCATE.html_attribute(html_attribute_name)
LOCATE_html_attribute(html_attribute_name) == HTML_ATTRIBUTE(html_attribute_name)

\* _HTML_ATTRIBUTE.by(by) with the strategy kept as written, as _BY.by does
HTML_ATTRIBUTE_by_verbatim(self, by) == BY_init(self.name, by)

\* _HTML_ATTRIBUTE.by(by)
HTML_ATTRIBUTE_by(self, by) ==
    BY_init(self.name, Str(lower(replace(by.s, "_", " "))))

\* _HTML_ATTRIBUTE.BY
HTML_ATTRIBUTE_BY(self) == BY_init(self.name, None)

\* _BY.__sets_by(func): the property <_BY>.<func.__name__>; the object after
\* the assignment to self.__by (the property returns self)
BY_sets_by(self, func_name) ==
    [self EXCEPT !.BY__by = Str(lower(replace(func_name, "_", " ")))]

\* _BY.by(by)
BY_by(self, by) == [self EXCEPT !.BY__by = by]

\* The outcome of a call: a returned value or a raised exception
Return(v) == [raised |-> FALSE, exc |-> "", value |-> v]
Raise(exc) == [raised |-> TRUE, exc |-> exc, value |-> Object("NoneType")]

\* <obj>(value, default_if_not_found): _BY.__call__; no other class of
\* locator.py defines __call__
Call(obj, value, default_if_not_found) ==
    IF obj.cls = "_BY"
    THEN IF obj.BY__by = None
         THEN Raise("LocatorNotDefinedError")
         ELSE Return(Locator(obj.BY__html_attribute, obj.BY__by, value,
                             default_if_not_found))
    ELSE Raise("TypeError")

\* ------------------------------------------------------------ the browser
\* The pages the driver can load, and on each the element Selenium's
\* find_element(by, value) yields: its attributes, or no element at all.
URLs == {"a.html", "b.html", "down.html"}

NoElement == [found |-> FALSE, textContent |-> None, href |-> None]
Element(text) == [found |-> TRUE, textContent |-> text, href |-> None]

\* driver.find_element(by, value) on the page at url
DriverFindElement(url, by, value) ==
    IF by # Str(css_selector) THEN NoElement
    ELSE IF url = "a.html" /\ value = Str(h2) THEN Element(Str(Alpha))
    ELSE IF url = "a.html" /\ value = Str(span) THEN Element(Str(Twelve))
    ELSE IF url = "b.html" /\ value = Str(span) THEN Element(Str(Seven))
    ELSE NoElement

\* driver.get(url): the page loads, or the driver raises
DriverGet(url) ==
    IF url = "down.html" THEN Raise("WebDriverException") ELSE Return(None)

\* WebElement.get_attribute(name): the attribute's value, or None
GetAttribute(element, html_attribute) ==
    IF html_attribute = Str(textContent) THEN element.textContent
    ELSE IF html_attribute = Str(href) THEN element.href
    ELSE None

\* Scraper.find_element(by, value), by a str: raises LocatorNotDefinedError
\* for a None value, NoSuchElementException when the driver finds nothing
find_element(url, by, value) ==
    IF by.ty = "str" /\ value = None THEN Raise("LocatorNotDefinedError")
    ELSE IF ~DriverFindElement(url, by, value).found
         THEN Raise("NoSuchElementException")
         ELSE Return(DriverFindElement(url, by, value))

\* -------------------------------------------------- conversion functions
Digits == <<"0","1","2","3","4","5","6","7","8","9">>
IsDigit(c) == \E i \in DOMAIN Digits : Digits[i] = c
DigitValue(c) == (CHOOSE i \in DOMAIN Digits : Digits[i] = c) - 1

RECURSIVE ParseInt(_)
ParseInt(cs) ==
    IF cs = <<>> THEN 0
    ELSE 10 * ParseInt(SubSeq(cs, 1, Len(cs) - 1)) + DigitValue(cs[Len(cs)])

\* convert_to_type(row_data) for the caller's function int: raises
\* ValueError unless the string is a decimal numeral
Convert(convert_to_type, row_data) ==
    IF convert_to_type = Callable(int)
    THEN IF row_data.ty = "str" /\ row_data.s # <<>>
            /\ \A i \in DOMAIN row_data.s : IsDigit(row_data.s[i])
         THEN Return(IntVal(ParseInt(row_data.s)))
         ELSE Raise("ValueError")
    ELSE Raise("TypeError")

\* -------------------------------------------------------------- uuid4()
\* uuid4().urn: the k-th identifier drawn; n stands for its random bits,
\* which differ from draw to draw
urn_uuid == <<"u","r","n",":","u","u","i","d",":">>
Urn(k) == [ty |-> "str", s |-> urn_uuid, n |-> k]

\* ---------------------------------------------------------- the FieldSet
\* A descriptor of the caller's own class, with the five attributes
\* ScrapingMethod.from_pages reads
Descriptor(html_attribute, by, value, default_if_not_found, convert_to_type) ==
    [Object("Descriptor") EXCEPT
        !.html_attribute = html_attribute, !.by = by, !.value = value,
        !.default_if_not_found = default_if_not_found,
        !.convert_to_type = convert_to_type]

\* LOCATE.<ATTRIBUTE>.BY.<STRATEGY>(value, default_if_not_found)
Fluent(attribute, strategy, value, default_if_not_found) ==
    Call(BY_sets_by(HTML_ATTRIBUTE_BY(attribute), strategy),
         value, default_if_not_found).value

\* What a caller may give create_scraping_method as a field's locator
LocatorLikes ==
    { Fluent(LOCATE_TEXT, CSS_SELECTOR, Str(h2), None),
      Fluent(LOCATE_HREF, ID, Str(span), Str(NA)),
      Descriptor(Str(textContent), Str(css_selector), Str(h2), Str(NA), None),
      LOCATE_TEXT,
      HTML_ATTRIBUTE_BY(LOCATE_HREF),
      Tuple(<<Str(CSS_SELECTOR), Str(h2)>>),
      Tuple(<<Str(ID), Str(span)>>),
      Tuple(<<Str(textContent), Str(CSS_SELECTOR), Str(h2)>>),
      Tuple(<<Str(href), Str(ID), Str(span)>>),
      Tuple(<<Str(h2)>>),
      Tuple(<<Str(textContent), Str(CSS_SELECTOR), Str(h2), Str(NA)>>) }

\* The locators of the scraping runs: a Locator of the builder, descriptors
\* with and without a conversion function, an unfinished builder
ScrapingLikes ==
    { Fluent(LOCATE_TEXT, CSS_SELECTOR, Str(h2), Str(NA)),
      Descriptor(Str(textContent), Str(css_selector), Str(h2), Str(NA), None),
      Descriptor(Str(textContent), Str(css_selector), Str(h2), Str(NA), Callable(int)),
      Descriptor(Str(textContent), Str(css_selector), Str(span), None, Callable(int)),
      Descriptor(Str(href), Str(css_selector), Str(span), Str(NA), None),
      LOCATE_TEXT }

\* The column names, in the order the caller writes them
ColumnNames == <<"title", "price", "uuid">>

\* The keyword arguments: column names, each once, with their locators
FieldSets(likes) ==
    UNION { { f \in [1..k -> [column_name : Range(ColumnNames), locator : likes]] :
                \A i, j \in 1..k : i < j =>
                    \E a, b \in DOMAIN ColumnNames :
                        /\ a < b
                        /\ ColumnNames[a] = f[i].column_name
                        /\ ColumnNames[b] = f[j].column_name }
            : k \in 0..MaxFields }

\* The url lists a caller may pass
RECURSIVE SeqsUpTo(_, _)
SeqsUpTo(S, k) ==
    IF k = 0 THEN {<<>>}
    ELSE SeqsUpTo(S, k - 1)
         \cup {Append(q, x) : q \in {r \in SeqsUpTo(S, k - 1) : Len(r) = k - 1}, x \in S}

UrlLists == SeqsUpTo(URLs, MaxPages)

\* The orders in which iterating a set of strings may yield its elements
Orders(S) ==
    { q \in [1..Cardinality(S) -> S] : \A i, j \in DOMAIN q : i # j => q[i] # q[j] }

\* ------------------------------------------------------------------ state
VARIABLES
    obj,        \* the class of the object constructed, "none" before
    kwargs,     \* the locators the caller gave at construction
    locators,   \* self.__locators
    data,       \* self.__data: column name -> list of values
    uuids,      \* how many identifiers uuid4() has drawn
    file,       \* ./raw_data/data.json
    s3,         \* the object uploaded to the bucket
    call,       \* the last call: its operation, arguments and injected fault
    result,     \* how the last call ended
    pages,      \* the number of addresses passed to from_pages so far
    driver,     \* the Scraper's browser: the listing it is on and the page shown
    retrieve,   \* the retrieve_urls call: its position, arguments and locals
    LOCATE,     \* the singleton _LOCATE(): its two fields
    heap,       \* the _HTML_ATTRIBUTE and _BY objects made, by reference
    obtained    \* the _BY builders a caller obtained, in order: the reference
                \* returned and the strategy it was asked for

vars == <<obj, kwargs, locators, data, uuids, file, s3, call, result, pages,
          driver, retrieve, LOCATE, heap, obtained>>

EmptyTable == [c \in {} |-> <<>>]
NoFile == [exists |-> FALSE, complete |-> FALSE, table |-> EmptyTable]
Truncated == [exists |-> TRUE, complete |-> FALSE, table |-> EmptyTable]
Written(table) == [exists |-> TRUE, complete |-> TRUE, table |-> table]

NoCall ==
    [op |-> "", urls |-> <<>>, order |-> <<>>, dump_json |-> FALSE,
     s3_bucket_name |-> None, fault |-> "none"]
NoResult == [raised |-> FALSE, exc |-> "", returns |-> ""]
Returned(what) == [raised |-> FALSE, exc |-> "", returns |-> what]
Raised(exc) == [raised |-> TRUE, exc |-> exc, returns |-> ""]

\* No Scraper yet, and no retrieve_urls call
NoDriver == [site |-> <<>>, page |-> 0]
Idle ==
    [pc |-> "idle", by |-> None, value |-> None, limit |-> None,
     next_button_xpath |-> None, elements |-> <<>>, urls |-> <<>>, exc |-> ""]

\* _LOCATE(): __html_attribute = None, __by = None
LOCATE_init == [LOCATE__html_attribute |-> None, LOCATE__by |-> None]

Init ==
    /\ obj = "none"
    /\ kwargs = <<>>
    /\ locators = <<>>
    /\ data = EmptyTable
    /\ uuids = 0
    /\ file = NoFile
    /\ s3 = NoFile
    /\ call = NoCall
    /\ result = NoResult
    /\ pages = 0
    /\ driver = NoDriver
    /\ retrieve = Idle
    /\ LOCATE = LOCATE_init
    /\ heap = <<>>
    /\ obtained = <<>>

\* ------------------------------------------------------ ScrapingMethod
\* ScrapingMethod.__init__ and ScrapeData.__init__: the empty table, one
\* column per key other than 'uuid', and the column 'uuid'
InitialData(locs) ==
    [c \in ({locs[i].column_name : i \in DOMAIN locs} \ {"uuid"}) \cup {"uuid"} |-> <<>>]

\* ScrapingMethod(scraper, locators)
ScrapingMethod_init(locs) ==
    /\ obj = "none"
    /\ obj' = "ScrapingMethod"
    /\ kwargs' = locs
    /\ locators' = locs
    /\ data' = InitialData(locs)
    /\ call' = [NoCall EXCEPT !.op = "ScrapingMethod"]
    /\ result' = Returned("ScrapingMethod")
    /\ UNCHANGED <<uuids, file, s3, pages, driver, retrieve,
                   LOCATE, heap, obtained>>

\* The loop of Scraper.create_scraping_method, for one keyword argument
NormalizeLocator(locator_like) ==
    IF locator_like.cls = "tuple" /\ Len(locator_like.items) = 2
    THEN Call(HTML_ATTRIBUTE_by(LOCATE_html_attribute(Str(textContent)),
                                locator_like.items[1]),
              locator_like.items[2], None).value
    ELSE IF locator_like.cls = "tuple" /\ Len(locator_like.items) = 3
    THEN Call(HTML_ATTRIBUTE_by(LOCATE_html_attribute(locator_like.items[1]),
                                locator_like.items[2]),
              locator_like.items[3], None).value
    ELSE locator_like

\* Scraper.create_scraping_method(**locators)
create_scraping_method(locs) ==
    /\ obj = "none"
    /\ obj' = "ScrapingMethod"
    /\ kwargs' = locs
    /\ locators' = [i \in DOMAIN locs |->
                      [locs[i] EXCEPT !.locator = NormalizeLocator(locs[i].locator)]]
    /\ data' = InitialData(locs)
    /\ call' = [NoCall EXCEPT !.op = "create_scraping_method"]
    /\ result' = Returned("ScrapingMethod")
    /\ UNCHANGED <<uuids, file, s3, pages, driver, retrieve,
                   LOCATE, heap, obtained>>

\* RowData with the descriptor's default taken when the conversion fails
RowData_defaultOnConversionFailure(locator, url) ==
    IF \/ locator.by = ABSENT \/ locator.value = ABSENT
       \/ locator.html_attribute = ABSENT \/ locator.convert_to_type = ABSENT
    THEN Raise("AttributeError")
    ELSE LET found == find_element(url, locator.by, locator.value)
             read == IF found.raised THEN None
                     ELSE GetAttribute(found.value, locator.html_attribute)
         IN  IF found.raised /\ found.exc # "NoSuchElementException"
             THEN Raise(found.exc)
             ELSE IF read = None
             THEN Return(locator.default_if_not_found)
             ELSE IF locator.convert_to_type # None
             THEN LET converted == Convert(locator.convert_to_type, read)
                  IN  IF converted.raised THEN Return(locator.default_if_not_found)
                      ELSE Return(converted.value)
             ELSE Return(read)

\* The value from_pages appends for one field of the page at url, or the
\* exception that leaves the loop
RowData(locator, url) ==
    IF \/ locator.by = ABSENT \/ locator.value = ABSENT
       \/ locator.html_attribute = ABSENT \/ locator.convert_to_type = ABSENT
    THEN Raise("AttributeError")
    ELSE LET found == find_element(url, locator.by, locator.value)
             read == IF found.raised THEN None
                     ELSE GetAttribute(found.value, locator.html_attribute)
         IN  IF found.raised /\ found.exc # "NoSuchElementException"
             THEN Raise(found.exc)
             ELSE IF read = None
             THEN IF locator.default_if_not_found = ABSENT
                  THEN Raise("AttributeError")
                  ELSE Return(locator.default_if_not_found)
             ELSE IF locator.convert_to_type # None
             THEN LET converted == Convert(locator.convert_to_type, read)
                  IN  IF converted.raised THEN Return(read)
                      ELSE Return(converted.value)
             ELSE Return(read)

\* The loop over self.__locators.items() from field i on; st is the table
\* and the exception raised, "" while none is
RECURSIVE ScrapeFields(_, _, _, _)
ScrapeFields(st, locs, i, url) ==
    IF i > Len(locs) \/ st.exc # "" THEN st
    ELSE LET row_data == RowData(locs[i].locator, url)
             column_name == locs[i].column_name
         IN  IF row_data.raised
             THEN [st EXCEPT !.exc = row_data.exc]
             ELSE ScrapeFields(
                    [st EXCEPT !.data[column_name] = Append(@, row_data.value)],
                    locs, i + 1, url)

\* ScrapePage with the identifier drawn and appended before the page is
\* loaded
ScrapePage_uuidBeforeGet(st, locs, url) ==
    IF DriverGet(url).raised
    THEN [st EXCEPT !.data["uuid"] = Append(@, Urn(st.uuids + 1)),
                    !.uuids = @ + 1,
                    !.exc = DriverGet(url).exc]
    ELSE ScrapeFields(
           [st EXCEPT !.data["uuid"] = Append(@, Urn(st.uuids + 1)),
                      !.uuids = @ + 1],
           locs, 1, url)

\* One pass of the loop over urls: navigate, draw and append the
\* identifier, scrape the fields
ScrapePage(st, locs, url) ==
    IF DriverGet(url).raised
    THEN [st EXCEPT !.exc = DriverGet(url).exc]
    ELSE ScrapeFields(
           [st EXCEPT !.data["uuid"] = Append(@, Urn(st.uuids + 1)),
                      !.uuids = @ + 1],
           locs, 1, url)

\* The loop over urls from the k-th on
RECURSIVE ScrapePages(_, _, _, _)
ScrapePages(st, locs, order, k) ==
    IF k > Len(order) \/ st.exc # "" THEN st
    ELSE ScrapePages(ScrapePage(st, locs, order[k]), locs, order, k + 1)

\* ScrapingMethod.dump(s3_bucket_name=...): the directory, the file, the
\* upload; fault is the step the environment fails
Faults == {"none", "makedirs", "open", "write", "upload"}

Dump(table, f, o, s3_bucket_name, fault) ==
    IF fault = "makedirs" THEN [exc |-> "OSError", file |-> f, s3 |-> o]
    ELSE IF fault = "open" THEN [exc |-> "", file |-> f, s3 |-> o]
    ELSE IF fault = "write" THEN [exc |-> "", file |-> Truncated, s3 |-> o]
    ELSE IF s3_bucket_name # None /\ fault # "upload"
    THEN [exc |-> "", file |-> Written(table), s3 |-> Written(table)]
    ELSE [exc |-> "", file |-> Written(table), s3 |-> o]

Buckets == {None, Str(<<"b","u","c","k","e","t">>)}

\* The upload fails only when there is one; when an earlier step fails the
\* bucket is never read, and the runs are taken with none
FaultReachable(s3_bucket_name, fault) ==
    /\ fault = "upload" => s3_bucket_name # None
    /\ fault \in {"makedirs", "open", "write"} => s3_bucket_name = None

\* ScrapingMethod.from_pages(urls, dump_json, s3_bucket_name)
from_pages(urls, order, dump_json, s3_bucket_name, fault) ==
    /\ obj = "ScrapingMethod"
    /\ pages + Len(urls) <= MaxPages
    /\ (fault # "none" \/ s3_bucket_name # None) => dump_json
    /\ FaultReachable(s3_bucket_name, fault)
    /\ LET run == ScrapePages([data |-> data, exc |-> "", uuids |-> uuids],
                              locators, order, 1)
           dumped == Dump(run.data, file, s3, s3_bucket_name, fault)
       IN  /\ data' = run.data
           /\ uuids' = run.uuids
           /\ IF run.exc # ""
              THEN /\ result' = Raised(run.exc)
                   /\ UNCHANGED <<file, s3>>
              ELSE IF dump_json
              THEN /\ file' = dumped.file
                   /\ s3' = dumped.s3
                   /\ result' = IF dumped.exc # "" THEN Raised(dumped.exc)
                                ELSE Returned("data")
              ELSE /\ result' = Returned("data")
                   /\ UNCHANGED <<file, s3>>
    /\ call' = [op |-> "from_pages", urls |-> urls, order |-> order,
                dump_json |-> dump_json, s3_bucket_name |-> s3_bucket_name,
                fault |-> fault]
    /\ pages' = pages + Len(urls)
    /\ UNCHANGED <<obj, kwargs, locators, driver, retrieve,
                   LOCATE, heap, obtained>>

\* ScrapingMethod.dump(s3_bucket_name=...)
dump(s3_bucket_name, fault) ==
    /\ obj = "ScrapingMethod"
    /\ FaultReachable(s3_bucket_name, fault)
    /\ LET dumped == Dump(data, file, s3, s3_bucket_name, fault)
       IN  /\ file' = dumped.file
           /\ s3' = dumped.s3
           /\ result' = IF dumped.exc # "" THEN Raised(dumped.exc)
                        ELSE Returned("None")
    /\ call' = [NoCall EXCEPT !.op = "dump", !.s3_bucket_name = s3_bucket_name,
                              !.fault = fault]
    /\ UNCHANGED <<obj, kwargs, locators, data, uuids, pages, driver, retrieve,
                   LOCATE, heap, obtained>>

\* ----------------------------------------------------------- ScrapeData
UNBOUND == [ty |-> "unbound", s |-> <<>>, n |-> 0]

\* ScrapeData(scraper, locators)
ScrapeData_init(locs) ==
    /\ obj = "none"
    /\ obj' = "ScrapeData"
    /\ kwargs' = locs
    /\ locators' = locs
    /\ data' = InitialData(locs)
    /\ call' = [NoCall EXCEPT !.op = "ScrapeData"]
    /\ result' = Returned("ScrapeData")
    /\ UNCHANGED <<uuids, file, s3, pages, driver, retrieve,
                   LOCATE, heap, obtained>>

\* One pass of ScrapeData.from_pages' loop over the fields: the local
\* row_data after the pass, UNBOUND while nothing was assigned to it, or
\* the exception that leaves the loop
ScrapeData_RowData(row_data, locator, url) ==
    IF \/ locator.by = ABSENT \/ locator.value = ABSENT
       \/ locator.html_attribute = ABSENT
    THEN Raise("AttributeError")
    ELSE LET found == find_element(url, locator.by, locator.value)
             read == IF found.raised THEN row_data
                     ELSE GetAttribute(found.value, locator.html_attribute)
         IN  IF found.raised /\ found.exc # "NoSuchElementException"
             THEN Raise(found.exc)
             ELSE IF read = UNBOUND THEN Raise("UnboundLocalError")
             ELSE IF read = None
             THEN IF locator.default_if_not_found = ABSENT
                  THEN Raise("AttributeError")
                  ELSE Return(locator.default_if_not_found)
             ELSE Return(read)

\* The loop over self.__locators.items() from field i on; st is the table,
\* the local row_data and the exception raised, "" while none is
RECURSIVE ScrapeData_Fields(_, _, _, _)
ScrapeData_Fields(st, locs, i, url) ==
    IF i > Len(locs) \/ st.exc # "" THEN st
    ELSE LET row_data == ScrapeData_RowData(st.row_data, locs[i].locator, url)
             column_name == locs[i].column_name
         IN  IF row_data.raised
             THEN [st EXCEPT !.exc = row_data.exc]
             ELSE ScrapeData_Fields(
                    [st EXCEPT !.data[column_name] = Append(@, row_data.value),
                               !.row_data = row_data.value],
                    locs, i + 1, url)

\* One pass of the loop over urls
ScrapeData_Page(st, locs, url) ==
    IF DriverGet(url).raised
    THEN [st EXCEPT !.exc = DriverGet(url).exc]
    ELSE ScrapeData_Fields(
           [st EXCEPT !.data["uuid"] = Append(@, Urn(st.uuids + 1)),
                      !.uuids = @ + 1],
           locs, 1, url)

\* The loop over urls from the k-th on
RECURSIVE ScrapeData_Pages(_, _, _, _)
ScrapeData_Pages(st, locs, urls, k) ==
    IF k > Len(urls) \/ st.exc # "" THEN st
    ELSE ScrapeData_Pages(ScrapeData_Page(st, locs, urls[k]), locs, urls, k + 1)

\* ScrapeData.dump(): the directory and the file
ScrapeData_Dump(table, f, fault) ==
    IF fault = "makedirs" THEN [exc |-> "OSError", file |-> f]
    ELSE IF fault = "open" THEN [exc |-> "", file |-> f]
    ELSE IF fault = "write" THEN [exc |-> "", file |-> Truncated]
    ELSE [exc |-> "", file |-> Written(table)]

\* ScrapeData.from_pages(urls, perform_dump)
ScrapeData_from_pages(urls, perform_dump, fault) ==
    /\ obj = "ScrapeData"
    /\ pages + Len(urls) <= MaxPages
    /\ fault # "none" => perform_dump
    /\ fault # "upload"
    /\ LET run == ScrapeData_Pages(
                    [data |-> data, exc |-> "", uuids |-> uuids, row_data |-> UNBOUND],
                    locators, urls, 1)
           dumped == ScrapeData_Dump(run.data, file, fault)
       IN  /\ data' = run.data
           /\ uuids' = run.uuids
           /\ IF run.exc # ""
              THEN /\ result' = Raised(run.exc)
                   /\ file' = file
              ELSE IF perform_dump
              THEN /\ file' = dumped.file
                   /\ result' = IF dumped.exc # "" THEN Raised(dumped.exc)
                                ELSE Returned("data")
              ELSE /\ result' = Returned("data")
                   /\ file' = file
    /\ call' = [op |-> "from_pages", urls |-> urls, order |-> urls,
                dump_json |-> perform_dump, s3_bucket_name |-> None,
                fault |-> fault]
    /\ pages' = pages + Len(urls)
    /\ UNCHANGED <<obj, kwargs, locators, s3, driver, retrieve,
                   LOCATE, heap, obtained>>

\* ScrapeData.dump()
ScrapeData_dump(fault) ==
    /\ obj = "ScrapeData"
    /\ fault # "upload"
    /\ LET dumped == ScrapeData_Dump(data, file, fault)
       IN  /\ file' = dumped.file
           /\ result' = IF dumped.exc # "" THEN Raised(dumped.exc)
                        ELSE Returned("None")
    /\ call' = [NoCall EXCEPT !.op = "dump", !.fault = fault]
    /\ UNCHANGED <<obj, kwargs, locators, data, uuids, s3, pages, driver, retrieve,
                   LOCATE, heap, obtained>>

\* ------------------------------------------------- Scraper.retrieve_urls
\* A listing: its pages, each with so many links; every page but the last
\* has the "Next" button, and a click on it shows the next page
Sites == UNION { [1..n -> 0..MaxLinks] : n \in 1..MaxListing }

anchor == <<"a">>
missing == <<"a",".","x">>
next_xpath == <<"/","/","n","e","x","t">>

\* The i-th link of page p, and its href
WebElement(p, i) == [page |-> p, index |-> i]
LinkHref(element) ==
    [ty |-> "str", s |-> <<"/">>, n |-> element.page * (MaxLinks + 1) + element.index]

\* driver.find_elements(by, value) on the page shown
DriverFindElements(drv, by, value) ==
    IF by = Str(css_selector) /\ value = Str(anchor)
    THEN [i \in 1..drv.site[drv.page] |-> WebElement(drv.page, i)]
    ELSE <<>>

\* Scraper.find_elements(by, value), by a str and value given
find_elements(drv, by, value) == DriverFindElements(drv, by, value)

\* Scraper.find_element(By.XPATH, next_button_xpath): whether the button
\* is found
NextButtonFound(drv, next_button_xpath) ==
    next_button_xpath = Str(next_xpath) /\ drv.page < Len(drv.site)

\* bool(v) of Python
Truthy(v) ==
    /\ v # None
    /\ ~(v.ty = "int" /\ v.n = 0)
    /\ ~(v.ty = "str" /\ v.s = <<>>)

\* list(element.get_attribute('href') for element in elements)
Hrefs(elements) == [i \in DOMAIN elements |-> LinkHref(elements[i])]

\* What a caller may give retrieve_urls
Strategies == {Str(css_selector), Fluent(LOCATE_HREF, CSS_SELECTOR, Str(anchor), None)}
Values == {None, Str(anchor), Str(missing)}
Limits == {None} \cup {IntVal(k) : k \in 0..MaxLimit}
NextButtons == {None, Str(next_xpath)}

\* Scraper(root): the browser shows the first page of the listing
Scraper_init(site) ==
    /\ driver = NoDriver
    /\ obj = "none"
    /\ driver' = [site |-> site, page |-> 1]
    /\ UNCHANGED <<obj, kwargs, locators, data, uuids, file, s3, call, result,
                   pages, retrieve,
                   LOCATE, heap, obtained>>

\* Scraper.retrieve_urls(by, value, limit, next_button_xpath) up to its
\* loops: the arguments are checked and unpacked, and the branch is taken;
\* the branch without a loop returns
retrieve_urls(by, value, limit, next_button_xpath) ==
    /\ driver # NoDriver
    /\ retrieve.pc = "idle"
    /\ LET isLocator == "cls" \in DOMAIN by
           by_ == IF isLocator THEN by.by ELSE by
           value_ == IF isLocator THEN by.value ELSE value
           entered == [Idle EXCEPT !.by = by_, !.value = value_, !.limit = limit,
                                   !.next_button_xpath = next_button_xpath]
       IN  retrieve' =
             IF ~isLocator /\ value = None
             THEN [entered EXCEPT !.pc = "raised", !.exc = "LocatorNotDefinedError"]
             ELSE IF Truthy(limit)
             THEN [entered EXCEPT !.pc = "while_limit"]
             ELSE IF Truthy(next_button_xpath)
             THEN [entered EXCEPT !.pc = "while_next"]
             ELSE [entered EXCEPT
                     !.elements = find_elements(driver, by_, value_),
                     !.urls = Hrefs(find_elements(driver, by_, value_)),
                     !.pc = "returned"]
    /\ UNCHANGED <<obj, kwargs, locators, data, uuids, file, s3, call, result,
                   pages, driver,
                   LOCATE, heap, obtained>>

\* `while len(elements) < limit:` and, when the test fails,
\* `elements = elements[:limit]` and the return
retrieve_urls_while_limit ==
    /\ retrieve.pc = "while_limit"
    /\ retrieve' =
         IF Len(retrieve.elements) < retrieve.limit.n
         THEN [retrieve EXCEPT !.pc = "extend"]
         ELSE LET elements == SubSeq(retrieve.elements, 1, retrieve.limit.n)
              IN  [retrieve EXCEPT !.elements = elements,
                                   !.urls = Hrefs(elements),
                                   !.pc = "returned"]
    /\ UNCHANGED <<obj, kwargs, locators, data, uuids, file, s3, call, result,
                   pages, driver,
                   LOCATE, heap, obtained>>

\* `elements.extend(self.find_elements(by, value))`, the body of the loop
\* on the limit
retrieve_urls_extend ==
    /\ retrieve.pc = "extend"
    /\ retrieve' =
         [retrieve EXCEPT
            !.elements = @ \o find_elements(driver, retrieve.by, retrieve.value),
            !.pc = "while_limit"]
    /\ UNCHANGED <<obj, kwargs, locators, data, uuids, file, s3, call, result,
                   pages, driver,
                   LOCATE, heap, obtained>>

\* One pass of `while True:` on the next button: the button is looked for;
\* not found, the loop is left and the hrefs are returned; found, the
\* elements of the page are taken and the button is clicked
retrieve_urls_while_next ==
    /\ retrieve.pc = "while_next"
    /\ IF ~NextButtonFound(driver, retrieve.next_button_xpath)
       THEN /\ retrieve' = [retrieve EXCEPT !.urls = Hrefs(retrieve.elements),
                                            !.pc = "returned"]
            /\ driver' = driver
       ELSE /\ retrieve' =
                 [retrieve EXCEPT
                    !.elements = @ \o find_elements(driver, retrieve.by, retrieve.value)]
            /\ driver' = [driver EXCEPT !.page = @ + 1]
    /\ UNCHANGED <<obj, kwargs, locators, data, uuids, file, s3, call, result, pages,
                   LOCATE, heap, obtained>>

\* ------------------------------------------------- the builder's objects
\* The properties of LOCATE and of _BY a caller reads, and the strategies
\* a caller names
AttributeProperties == {TEXT, HREF}
StrategyProperties == {CSS_SELECTOR, ID, XPATH}
StrategyNames == {Str(CSS_SELECTOR), Str(ID)}

\* LOCATE.<func_name>: a new _HTML_ATTRIBUTE; the wrapper reads and writes
\* no field of LOCATE
LOCATE_property(func_name) ==
    /\ Len(heap) < MaxObjects
    /\ heap' = Append(heap, IF func_name = TEXT THEN LOCATE_TEXT
                            ELSE LOCATE_sets_html_attribute(None, func_name))
    /\ UNCHANGED <<obj, kwargs, locators, data, uuids, file, s3, call, result,
                   pages, driver, retrieve, LOCATE, obtained>>

\* <_HTML_ATTRIBUTE>.BY: a new _BY with no strategy
BY_property(ref) ==
    /\ Len(heap) < MaxObjects
    /\ Len(obtained) < MaxBuilders
    /\ ref \in DOMAIN heap
    /\ heap[ref].cls = "_HTML_ATTRIBUTE"
    /\ heap' = Append(heap, HTML_ATTRIBUTE_BY(heap[ref]))
    /\ obtained' = Append(obtained, [ref |-> Len(heap) + 1, by |-> None])
    /\ UNCHANGED <<obj, kwargs, locators, data, uuids, file, s3, call, result,
                   pages, driver, retrieve, LOCATE>>

\* <_BY>.<func_name>, a strategy shortcut: self.__by is assigned and self
\* is returned
shortcut_property(ref, func_name) ==
    /\ Len(obtained) < MaxBuilders
    /\ ref \in DOMAIN heap
    /\ heap[ref].cls = "_BY"
    /\ heap' = [heap EXCEPT ![ref] = BY_sets_by(heap[ref], func_name)]
    /\ obtained' = Append(obtained,
                          [ref |-> ref, by |-> BY_sets_by(heap[ref], func_name).BY__by])
    /\ UNCHANGED <<obj, kwargs, locators, data, uuids, file, s3, call, result,
                   pages, driver, retrieve, LOCATE>>

\* <builder>.by(by): _HTML_ATTRIBUTE.by makes a new _BY; _BY.by assigns
\* self.__by and returns self
by_method(ref, by) ==
    /\ Len(obtained) < MaxBuilders
    /\ ref \in DOMAIN heap
    /\ IF heap[ref].cls = "_HTML_ATTRIBUTE"
       THEN /\ Len(heap) < MaxObjects
            /\ heap' = Append(heap, HTML_ATTRIBUTE_by(heap[ref], by))
            /\ obtained' = Append(obtained,
                                  [ref |-> Len(heap) + 1,
                                   by |-> HTML_ATTRIBUTE_by(heap[ref], by).BY__by])
       ELSE /\ heap' = [heap EXCEPT ![ref] = BY_by(heap[ref], by)]
            /\ obtained' = Append(obtained, [ref |-> ref, by |-> by])
    /\ UNCHANGED <<obj, kwargs, locators, data, uuids, file, s3, call, result,
                   pages, driver, retrieve, LOCATE>>

\* ------------------------------------------------------- specifications
\* The locators of the runs with persistence
DumpLikes ==
    { Descriptor(Str(textContent), Str(css_selector), Str(h2), Str(NA), None) }

\* The locators of the ScrapeData runs
DataLikes ==
    { Fluent(LOCATE_TEXT, CSS_SELECTOR, Str(h2), Str(NA)),
      Fluent(LOCATE_TEXT, CSS_SELECTOR, Str(span), None),
      Fluent(LOCATE_HREF, CSS_SELECTOR, Str(span), Str(NA)) }

\* The scraping runs: a ScrapingMethod is made, then from_pages is called,
\* without the dump
Next ==
    \/ \E locs \in FieldSets(ScrapingLikes) : ScrapingMethod_init(locs)
    \/ \E locs \in FieldSets(ScrapingLikes) : create_scraping_method(locs)
    \/ \E urls \in UrlLists : \E order \in Orders(Range(urls)) :
            from_pages(urls, order, FALSE, None, "none")

Spec == Init /\ [][Next]_vars

\* The construction of a ScrapingMethod from all a caller may give
NextCreate ==
    \/ \E locs \in FieldSets(LocatorLikes) : ScrapingMethod_init(locs)
    \/ \E locs \in FieldSets(LocatorLikes) : create_scraping_method(locs)

SpecCreate == Init /\ [][NextCreate]_vars

\* The runs with persistence, each step of which may fail
NextDump ==
    \/ \E locs \in FieldSets(DumpLikes) : ScrapingMethod_init(locs)
    \/ \E urls \in UrlLists, dump_json \in BOOLEAN, s3_bucket_name \in Buckets,
          fault \in Faults :
         \E order \in Orders(Range(urls)) :
            from_pages(urls, order, dump_json, s3_bucket_name, fault)
    \/ \E s3_bucket_name \in Buckets, fault \in Faults : dump(s3_bucket_name, fault)

SpecDump == Init /\ [][NextDump]_vars

\* The ScrapeData runs
NextData ==
    \/ \E locs \in FieldSets(DataLikes) : ScrapeData_init(locs)
    \/ \E urls \in UrlLists, perform_dump \in BOOLEAN, fault \in Faults :
            ScrapeData_from_pages(urls, perform_dump, fault)
    \/ \E fault \in Faults : ScrapeData_dump(fault)

SpecData == Init /\ [][NextData]_vars

\* The retrieval of urls from a listing
NextUrls ==
    \/ \E site \in Sites : Scraper_init(site)
    \/ \E by \in Strategies, value \in Values, limit \in Limits,
          next_button_xpath \in NextButtons :
            retrieve_urls(by, value, limit, next_button_xpath)
    \/ retrieve_urls_while_limit
    \/ retrieve_urls_extend
    \/ retrieve_urls_while_next

SpecUrls == Init /\ [][NextUrls]_vars

\* The builder: attributes are read off LOCATE, builders are obtained and
\* strategies are chosen on them
NextBuilder ==
    \/ \E func_name \in AttributeProperties : LOCATE_property(func_name)
    \/ \E ref \in 1..MaxObjects : BY_property(ref)
    \/ \E ref \in 1..MaxObjects, func_name \in StrategyProperties :
            shortcut_property(ref, func_name)
    \/ \E ref \in 1..MaxObjects, by \in StrategyNames : by_method(ref, by)

SpecBuilder == Init /\ [][NextBuilder]_vars

\* The same, the call running on until it returns: a step that can be
\* taken is taken
SpecUrlsFair == Init /\ [][NextUrls]_vars /\ WF_vars(NextUrls)

\* ------------------------------------------------------------ properties
Finished(locator) == locator.cls \in {"Locator", "Descriptor"}
Unfinished(locator) == locator.cls \in {"_HTML_ATTRIBUTE", "_BY"}
Loads(url) == ~DriverGet(url).raised
NotFound(locator, url) ==
    /\ find_element(url, locator.by, locator.value).raised
    /\ find_element(url, locator.by, locator.value).exc = "NoSuchElementException"
RawRead(locator, url) ==
    IF find_element(url, locator.by, locator.value).raised THEN None
    ELSE GetAttribute(find_element(url, locator.by, locator.value).value,
                      locator.html_attribute)
ConversionThrows(locator, url) ==
    /\ locator.convert_to_type.ty = "function"
    /\ RawRead(locator, url) # None
    /\ Convert(locator.convert_to_type, RawRead(locator, url)).raised
NoRepeats(q) == \A i, j \in DOMAIN q : i # j => q[i] # q[j]

\* The last call was from_pages on a ScrapingMethod whose table was empty
FirstScrape ==
    /\ obj = "ScrapingMethod"
    /\ call.op = "from_pages"
    /\ pages = Len(call.urls)

\* C1: after a from_pages call on a fresh ScrapingMethod that returns, every
\* column (each declared field and uuid) has exactly D entries, D the
\* number of distinct addresses of the input list.
C1_ColumnsHoldDistinctCount ==
    (FirstScrape /\ ~result.raised) =>
        \A c \in DOMAIN data : Len(data[c]) = Cardinality(Range(call.urls))

\* C2: every column of the table has the same length after construction
\* and after every from_pages call, returned or raised.
C2_ColumnsEqualLength ==
    obj = "ScrapingMethod" =>
        \A c, d \in DOMAIN data : Len(data[c]) = Len(data[d])

\* C3: when the lookup for field F signals not-found on every page, every
\* entry of F's column is the default_if_not_found of F's Locator and
\* from_pages raises nothing.
C3_NotFoundGivesDefault ==
    \A i \in DOMAIN locators :
        ( /\ FirstScrape
          /\ \A j \in DOMAIN locators : Finished(locators[j].locator)
          /\ locators[i].column_name # "uuid"
          /\ \A u \in Range(call.urls) :
                Loads(u) /\ NotFound(locators[i].locator, u) )
        => /\ ~result.raised
           /\ \A k \in DOMAIN data[locators[i].column_name] :
                data[locators[i].column_name][k]
                    = locators[i].locator.default_if_not_found

\* C4: when the conversion function of a field's descriptor throws for the
\* raw value read from a page, from_pages appends the raw string for that
\* field and page, not the default, and the failure raises nothing: the
\* next field, or the next page, is scraped.
C4_ConversionFailureKeepsRaw ==
    [][ (obj = "ScrapingMethod" /\ call'.op = "from_pages" /\ pages' # pages) =>
          \A i \in DOMAIN locators : \A k \in DOMAIN call'.order :
            LET locator == locators[i].locator
                column == locators[i].column_name
                before == Len(data[column])
                row == IF column = "uuid" THEN 2 * k ELSE k
                reached == /\ \A m \in 1..k : Loads(call'.order[m])
                           /\ \A j \in DOMAIN locators :
                                locators[j].locator.cls = "Descriptor"
            IN  (reached /\ ConversionThrows(locator, call'.order[k])) =>
                    /\ Len(data'[column]) >= before + row
                    /\ data'[column][before + row] = RawRead(locator, call'.order[k])
                    /\ data'[column][before + row] # locator.default_if_not_found
                    /\ (result'.raised => \E u \in Range(call'.order) : ~Loads(u))
      ]_vars

\* A conversion function threw during a from_pages call that returned
C4_Witness ==
    /\ FirstScrape
    /\ ~result.raised
    /\ \E i \in DOMAIN locators : \E k \in DOMAIN call.order :
        /\ locators[i].column_name # "uuid"
        /\ ConversionThrows(locators[i].locator, call.order[k])
        /\ data[locators[i].column_name][k] = Str(Alpha)

\* C5: a builder on which no strategy has been chosen, supplied as a
\* field's locator to a ScrapingMethod run, raises LocatorNotDefinedError
\* and yields no table entry.
C5_UnfinishedBuilderNotDefined ==
    ( /\ FirstScrape
      /\ locators # <<>>
      /\ Unfinished(locators[1].locator)
      /\ call.urls # <<>>
      /\ \A u \in Range(call.urls) : Loads(u) )
    => /\ result.raised
       /\ result.exc = "LocatorNotDefinedError"
       /\ \A c \in DOMAIN data : data[c] = <<>>

\* C7: for an input list without repeated addresses, row i of every column
\* holds the value extracted from the i-th address of the list.
C7_RowsInInputOrder ==
    (FirstScrape /\ ~result.raised /\ NoRepeats(call.urls)) =>
        \A i \in DOMAIN locators :
            locators[i].column_name # "uuid" =>
                /\ Len(data[locators[i].column_name]) = Len(call.urls)
                /\ \A k \in DOMAIN call.urls :
                    data[locators[i].column_name][k]
                        = RowData(locators[i].locator, call.urls[k]).value

\* C9: for a field whose descriptor is a Locator (it has no conversion
\* function), from_pages appends the raw attribute value when the element
\* and the attribute are found, and completes the row without raising.
C9_LocatorWithoutConversion ==
    ( /\ FirstScrape
      /\ \A j \in DOMAIN locators : locators[j].locator.cls = "Locator"
      /\ \A u \in Range(call.urls) : Loads(u) )
    => /\ ~result.raised
       /\ \A i \in DOMAIN locators : \A k \in DOMAIN call.order :
            ( /\ locators[i].column_name # "uuid"
              /\ RawRead(locators[i].locator, call.order[k]) # None )
            => /\ Len(data[locators[i].column_name]) >= k
               /\ data[locators[i].column_name][k]
                    = RawRead(locators[i].locator, call.order[k])

\* C6: a failure of a persistence step (the directory, the file, the
\* upload) is never raised to the caller of dump or of from_pages with
\* dumping enabled, and from_pages still returns the table.
C6_PersistenceFailureNotRaised ==
    ( /\ obj = "ScrapingMethod"
      /\ call.op \in {"dump", "from_pages"}
      /\ call.fault # "none"
      /\ \A u \in Range(call.urls) : Loads(u) )
    => /\ ~result.raised
       /\ call.op = "from_pages" => result.returns = "data"

\* Selenium's name of the strategy a tuple or a shortcut names
id == <<"i","d">>
StrategyNamed(strategy) ==
    IF strategy = Str(CSS_SELECTOR) THEN Str(css_selector)
    ELSE IF strategy = Str(ID) THEN Str(id)
    ELSE strategy

\* What C8 says of the field given as `given` and made into `made`
TupleNormalized(given, made) ==
    /\ (given.cls = "tuple" /\ Len(given.items) = 2) =>
          /\ made = Locator(Str(textContent), StrategyNamed(given.items[1]),
                            given.items[2], None)
          /\ made = Fluent(LOCATE_TEXT, given.items[1].s, given.items[2], None)
    /\ (given.cls = "tuple" /\ Len(given.items) = 3) =>
          /\ made = Locator(given.items[1], StrategyNamed(given.items[2]),
                            given.items[3], None)
          /\ made = Fluent(IF given.items[1] = Str(href) THEN LOCATE_HREF
                           ELSE LOCATE_html_attribute(given.items[1]),
                           given.items[2].s, given.items[3], None)

C10_NotFoundGivesDefault ==
    ( /\ obj = "ScrapeData"
      /\ call.op = "from_pages"
      /\ pages = Len(call.urls)
      /\ call.fault = "none"
      /\ \A u \in Range(call.urls) : Loads(u) )
    => /\ ~result.raised
       /\ \A i \in DOMAIN locators : \A k \in DOMAIN call.urls :
            ( /\ locators[i].column_name # "uuid"
              /\ NotFound(locators[i].locator, call.urls[k]) )
            => /\ Len(data[locators[i].column_name]) >= k
               /\ data[locators[i].column_name][k]
                    = locators[i].locator.default_if_not_found

\* C11: when navigation raises for the k-th page processed, from_pages
\* raises that error and persists nothing, and the table holds what the
\* k-1 pages before it gave and nothing for the failing page: no
\* identifier was drawn or appended for it, and no field value.
C11_NavigationFailureAborts ==
    [][ (obj = "ScrapingMethod" /\ call'.op = "from_pages" /\ pages' # pages) =>
          \A k \in DOMAIN call'.order :
            LET before == SubSeq(call'.order, 1, k - 1)
                rows == ScrapePages([data |-> data, exc |-> "", uuids |-> uuids],
                                    locators, before, 1)
            IN  ( /\ ~Loads(call'.order[k])
                  /\ \A m \in 1..(k - 1) : Loads(call'.order[m])
                  /\ rows.exc = "" )
                => /\ result'.raised
                   /\ result'.exc = DriverGet(call'.order[k]).exc
                   /\ file' = file
                   /\ s3' = s3
                   /\ uuids' = uuids + (k - 1)
                   /\ data' = rows.data
                   /\ (\A i \in DOMAIN locators : locators[i].column_name # "uuid")
                        => \A c \in DOMAIN data :
                              /\ Len(data'[c]) = Len(data[c]) + (k - 1)
                              /\ SubSeq(data'[c], 1, Len(data[c])) = data[c]
      ]_vars

\* Navigation failed on the second page of a from_pages call that was to
\* dump: the first page's row is in the table and nothing was written
C11_Witness ==
    /\ FirstScrape
    /\ call.dump_json
    /\ Len(call.order) = 2
    /\ Loads(call.order[1])
    /\ ~Loads(call.order[2])
    /\ result.raised
    /\ result.exc = "WebDriverException"
    /\ "title" \in DOMAIN data
    /\ Len(data["title"]) = 1
    /\ Len(data["uuid"]) = 1
    /\ file = NoFile

\* C12: retrieve_urls called with a positive limit terminates and returns
\* at most limit urls, also when no element of the page matches the
\* strategy and value given.
C12_LimitTerminates ==
    (retrieve.pc \in {"while_limit", "extend"})
        ~> (retrieve.pc = "returned" /\ Len(retrieve.urls) <= retrieve.limit.n)

\* The hrefs of the elements matching by and value on pages 1..p of the
\* listing, page after page
RECURSIVE HrefsOfPages(_, _, _, _)
HrefsOfPages(site, p, by, value) ==
    IF p = 0 THEN <<>>
    ELSE HrefsOfPages(site, p - 1, by, value)
         \o Hrefs(find_elements([site |-> site, page |-> p], by, value))

\* C13: retrieve_urls called with next_button_xpath and no limit returns
\* the href of every matching element of every page it visited, in visiting
\* order, the final page (where the next button is not found) included.
C13_NextButtonAllPages ==
    ( /\ retrieve.pc = "returned"
      /\ ~Truthy(retrieve.limit)
      /\ Truthy(retrieve.next_button_xpath) )
    => retrieve.urls
         = HrefsOfPages(driver.site, driver.page, retrieve.by, retrieve.value)

\* C14: the uuid column is reserved: when the FieldSet declares a field
\* named 'uuid', each page processed still adds exactly one entry to the
\* uuid column, the identifier drawn for the page, and the uuid column is as
\* long as every other column.
C14_UuidColumnReserved ==
    ( /\ FirstScrape
      /\ ~result.raised
      /\ \E i \in DOMAIN locators : locators[i].column_name = "uuid" )
    => /\ Len(data["uuid"]) = Len(call.order)
       /\ \A k \in DOMAIN data["uuid"] : data["uuid"][k] = Urn(k)
       /\ \A c \in DOMAIN data : Len(data[c]) = Len(data["uuid"])

\* C15: the table of a ScrapingMethod is append-only: over any call each
\* column before the call is a prefix of the column after it, dump changes
\* no column, and after two from_pages calls that returned, of D1 and D2
\* distinct addresses, every column has D1 + D2 entries.
C15_AppendOnly ==
    [][ obj = "ScrapingMethod" =>
          /\ \A c \in DOMAIN data :
                /\ c \in DOMAIN data'
                /\ Len(data'[c]) >= Len(data[c])
                /\ SubSeq(data'[c], 1, Len(data[c])) = data[c]
          /\ call'.op = "dump" => data' = data
          /\ ( /\ FirstScrape
               /\ ~result.raised
               /\ call'.op = "from_pages"
               /\ pages' # pages
               /\ ~result'.raised )
             => \A c \in DOMAIN data' :
                  Len(data'[c]) = Cardinality(Range(call.urls))
                                  + Cardinality(Range(call'.urls))
      ]_vars

\* C16: choosing a strategy on a builder leaves every builder obtained
\* before unchanged: each builder obtained with a strategy S, called with a
\* value v, gives the Locator carrying S, whatever was chosen on a builder
\* since; and the singleton LOCATE keeps no attribute and no strategy.
C16_BuildersIndependent ==
    /\ \A i \in DOMAIN obtained :
          obtained[i].by # None =>
            Call(heap[obtained[i].ref], Str(h2), None)
              = Return(Locator(heap[obtained[i].ref].BY__html_attribute,
                               obtained[i].by, Str(h2), None))
    /\ LOCATE = LOCATE_init

====
